---- MODULE Spec2Model ----
(***************************************************************************)
(* A model of finpulse's scraping core:                                    *)
(*   src/finpulse/scrapers/base_scraper.py  (class BaseScraper)            *)
(*                                                                         *)
(* One BaseScraper instance is used by one thread.  _make_request is split *)
(* at its only blocking point, the HTTP exchange: FetchCall runs the call  *)
(* up to the first request on the wire, and each Attempt is one HTTP       *)
(* attempt answered by the environment, followed by a retry inside the     *)
(* session's adapter or by the end of the call.                            *)
(*                                                                         *)
(* Spec        the statistics and the scraping sessions                    *)
(* SpecRetry   the retry strategy, with the attempts of each call recorded *)
(* SpecRate    the rate limiting, with a clock that advances freely        *)
(* SpecTickers the pure function _detect_ticker_symbols                    *)
(***************************************************************************)
EXTENDS Integers, Sequences, FiniteSets, TLC

VARIABLES
    delay_seconds,  \* self.delay_seconds (constructor argument)
    max_retries,    \* self.max_retries   (constructor argument)
    stats,          \* self.stats
    now,            \* the clock behind time.sleep and datetime.utcnow
    pc,             \* "idle", or "request" while session.request is in progress
    call,           \* the frame of the _make_request call in progress
    last,           \* the operation completed last and what it handed back
    runCalls,       \* history: _make_request calls since the last start_scraping
    runs,           \* history: number of start_scraping calls
    trace,          \* history: outcomes of the HTTP attempts of the current call
    lastFinish,     \* history: when the previous _make_request call ended
    lastIssue,      \* history: the most recent HTTP request put on the wire
    text,           \* argument of _detect_ticker_symbols
    tickers,        \* its return value
    detected,       \* whether tickers holds the result for text
    raised,         \* the exception the call on text ended with, or "none"
    analysis,       \* arguments of analyze_text and the scores the library gives
    result,         \* what analyze_text returned or raised
    analyzed,       \* whether result holds the outcome for analysis
    document,       \* history: the elements and text the markup was written from
    markup,         \* the html given to _extract_text_content
    plain,          \* its return value
    extracted,      \* whether plain holds the result for markup
    session,        \* the requests.Session of the instance: "open" or "closed"
    scope,          \* where a with statement on the instance is
    escaped,        \* the exception the with statement passed to its caller
    step,           \* the statement of analyze_text that runs next
    startedAt,      \* start_time of analyze_text
    scoredAt,       \* history: when the scoring of the model returned
    active,         \* the instance whose attributes the variables above hold
    parked,         \* the attributes of the other instance
    issued,         \* history: _make_request calls made on each instance
    payload,        \* the input of SentimentScoreCreate: a value for each key
    values,         \* the fields validated so far, as the validator sees them
    errors,         \* the fields whose validation failed
    cursor,         \* the field validated next
    request,        \* the query parameters of GET /articles
    stored,         \* the number of articles the query of the request counts
    response        \* what GET /articles answered

progVars == <<delay_seconds, max_retries, stats, now, pc, call, last,
              runCalls, runs>>
traceVars == <<trace>>
rateVars == <<lastFinish, lastIssue>>
tickerVars == <<text, tickers, detected, raised>>
sentimentVars == <<analysis, result, analyzed>>
extractVars == <<document, markup, plain, extracted>>
contextVars == <<session, scope, escaped>>
timingVars == <<step, startedAt, scoredAt>>
isolationVars == <<active, parked, issued>>
schemaVars == <<payload, values, errors, cursor>>
pagingVars == <<request, stored, response>>
vars == <<progVars, traceVars, rateVars, tickerVars, sentimentVars,
          extractVars, contextVars, timingVars, isolationVars, schemaVars,
          pagingVars>>

----------------------------------------------------------------------------
(* Bounds of the model *)

MaxCalls == 3       \* _make_request calls per instance
MaxTime == 6        \* the clock stops advancing here
MaxRuns == 2        \* start_scraping calls per instance
MaxItems == 1       \* items counted by a concrete scraper

----------------------------------------------------------------------------
(* Values *)

\* None in 'start_time': None / 'end_time': None
NoTime == -1

DelayValues == {0, 2}
RetryValues == {0, 1, 3}

Methods == {"GET", "POST"}
\* urllib3 Retry.DEFAULT_ALLOWED_METHODS, the idempotent methods (POST is not one)
AllowedMethods == {"GET", "HEAD", "PUT", "DELETE", "OPTIONS", "TRACE"}

\* **kwargs of _make_request: nothing, or a 'timeout' entry, which collides
\* with timeout=self.timeout in the session.request call
Options == {"none", "timeout"}

\* status_forcelist of the Retry strategy
StatusForcelist == {429, 500, 502, 503, 504}
\* urllib3 Retry.RETRY_AFTER_STATUS_CODES, honoured because the strategy is built
\* with the default respect_retry_after_header=True
RetryAfterStatusCodes == {413, 429, 503}

Response(s, ra) == [kind |-> "response", status |-> s, retry_after |-> ra]
ConnectError == [kind |-> "connect_error", status |-> 0, retry_after |-> FALSE]
ReadTimeout == [kind |-> "read_timeout", status |-> 0, retry_after |-> FALSE]
NoOutcome == [kind |-> "none", status |-> 0, retry_after |-> FALSE]

\* what one HTTP attempt can end in: a response (here one of seven, with or
\* without a Retry-After header on the 413), a connection error (refused,
\* connect timeout) or a read timeout
Outcomes ==
    {Response(s, FALSE) : s \in {200, 204, 304, 404, 413, 429, 503}}
        \cup {Response(413, TRUE), ConnectError, ReadTimeout}

\* the answers used where only the pacing of the requests is observed
FewOutcomes == {Response(200, FALSE), Response(503, FALSE), ReadTimeout}

Counters(s) ==
    [requests_made |-> s.requests_made,
     successful_requests |-> s.successful_requests,
     failed_requests |-> s.failed_requests]

NoCall ==
    [method |-> "GET", remaining |-> 0, slept |-> FALSE,
     pre |-> [requests_made |-> 0, successful_requests |-> 0,
              failed_requests |-> 0]]

\* ret: "response" (the Response object), "None", or "raised" (an exception
\* left the operation); final: the outcome of the last HTTP attempt
Done(op, ret, exc, final, c) ==
    [op |-> op, ret |-> ret, exc |-> exc, final |-> final,
     method |-> c.method, slept |-> c.slept, pre |-> c.pre]

NoIssue == [call |-> 0, at |-> NoTime, prevFinish |-> NoTime]

----------------------------------------------------------------------------
(* BaseScraper.__init__ *)

InitStats ==
    [requests_made |-> 0, successful_requests |-> 0, failed_requests |-> 0,
     items_scraped |-> 0, start_time |-> NoTime, end_time |-> NoTime]

InitScraper ==
    /\ delay_seconds \in DelayValues
    /\ max_retries \in RetryValues
    /\ stats = InitStats
    /\ now = 0
    /\ pc = "idle"
    /\ call = NoCall
    /\ last = Done("init", "None", "none", NoOutcome, NoCall)
    /\ runCalls = 0
    /\ runs = 0
    /\ trace = <<>>
    /\ lastFinish = NoTime
    /\ lastIssue = NoIssue

----------------------------------------------------------------------------
(* The retry strategy mounted by _create_session:                          *)
(* Retry(total=max_retries, backoff_factor=1, status_forcelist=[...])      *)

\* Retry.is_retry: is a response with this status re-attempted
IsRetry(method, o, total) ==
    /\ method \in AllowedMethods
    /\ \/ o.status \in StatusForcelist
       \/ /\ total # 0
          /\ o.retry_after
          /\ o.status \in RetryAfterStatusCodes

\* Retry.increment: total is decremented, and the strategy is exhausted below 0
Exhausted(total) == total - 1 < 0

\* what session.request does with the outcome of one attempt: "retry" it,
\* "return" the response, or "raise" a requests.exceptions.RequestException
\* (RetryError, ConnectionError, ConnectTimeout, ReadTimeout)
AttemptDecision(method, o, total) ==
    CASE o.kind = "response" ->
            IF IsRetry(method, o, total)
            THEN IF Exhausted(total) THEN "raise" ELSE "retry"
            ELSE "return"
      [] o.kind = "connect_error" ->
            IF Exhausted(total) THEN "raise" ELSE "retry"
      [] o.kind = "read_timeout" ->
            IF method \notin AllowedMethods \/ Exhausted(total)
            THEN "raise" ELSE "retry"

----------------------------------------------------------------------------
(* BaseScraper._make_request *)

\* self.stats['requests_made'] += 1
CountRequest(s) == [s EXCEPT !.requests_made = @ + 1]

\* a variant that paces every call, the first included
SleepsAlways(s) == s.requests_made >= 1

\* a variant that starts pacing one call late
SleepsAfterSecond(s) == s.requests_made > 2

\* if self.stats['requests_made'] > 1: time.sleep(self.delay_seconds)
Sleeps(s) == s.requests_made > 1

\* time.sleep(self.delay_seconds) returns after at least that long
SleepUntil(t, oversleep) == t + delay_seconds + oversleep

\* a variant that takes every 2xx status for a success
IsSuccessAny2xx(status) == status >= 200 /\ status < 300

\* if response.status_code == 200
IsSuccess(status) == status = 200

\* a variant whose except clause names ConnectionError only
CaughtConnectionErrorOnly(exc) == exc = "ConnectionError"

\* except requests.exceptions.RequestException
Caught(exc) == exc = "RequestException"

\* a variant that counts a success in the failure counter
CountSuccessAsFailure(s) == [s EXCEPT !.failed_requests = @ + 1]

\* self.stats['successful_requests'] += 1
CountSuccess(s) == [s EXCEPT !.successful_requests = @ + 1]

\* self.stats['failed_requests'] += 1
CountFailure(s) == [s EXCEPT !.failed_requests = @ + 1]

\* the except clause: a RequestException is counted and turned into None,
\* any other exception leaves _make_request
Handle(exc, final, c) ==
    IF Caught(exc)
    THEN /\ stats' = CountFailure(stats)
         /\ last' = Done("fetch", "None", exc, final, c)
    ELSE /\ UNCHANGED stats
         /\ last' = Done("fetch", "raised", exc, final, c)

\* The call up to the point where the first HTTP request goes on the wire:
\* the counter, the rate-limiting sleep and the session.request call itself.
\* A 'timeout' in kwargs makes that call raise TypeError (two values for one
\* keyword argument), which is not a RequestException.
FetchCall(method, options, oversleep) ==
    /\ pc = "idle"
    /\ LET counted == CountRequest(stats)
           sleeps == Sleeps(counted)
           c == [method |-> method, remaining |-> max_retries,
                 slept |-> sleeps, pre |-> Counters(stats)]
       IN  /\ sleeps \/ oversleep = 0
           /\ now' = IF sleeps THEN SleepUntil(now, oversleep) ELSE now
           /\ runCalls' = runCalls + 1
           /\ issued' = [issued EXCEPT ![active] = @ + 1]
           /\ IF options = "timeout"
              THEN /\ IF Caught("TypeError")
                      THEN /\ stats' = CountFailure(counted)
                           /\ last' = Done("fetch", "None", "TypeError", NoOutcome, c)
                      ELSE /\ stats' = counted
                           /\ last' = Done("fetch", "raised", "TypeError", NoOutcome, c)
                   /\ UNCHANGED <<pc, call>>
              ELSE /\ stats' = counted
                   /\ call' = c
                   /\ pc' = "request"
                   /\ last' = Done("calling", "None", "none", NoOutcome, c)
    /\ UNCHANGED <<delay_seconds, max_retries, runs,
                   tickerVars, sentimentVars, extractVars, contextVars,
                   timingVars, active, parked, schemaVars, pagingVars>>

\* One HTTP attempt of session.request and what follows it: a retry inside
\* the adapter, or the end of _make_request.  dur is the time the attempt
\* (and the backoff sleep after it) takes.
Attempt(o, dur) ==
    /\ pc = "request"
    /\ now' = now + dur
    /\ LET d == AttemptDecision(call.method, o, call.remaining)
       IN  CASE d = "retry" ->
                    /\ call' = [call EXCEPT !.remaining = @ - 1]
                    /\ UNCHANGED <<stats, pc, last>>
             [] d = "return" ->
                    /\ IF IsSuccess(o.status)
                       THEN /\ stats' = CountSuccess(stats)
                            /\ last' = Done("fetch", "response", "none", o, call)
                       ELSE /\ stats' = CountFailure(stats)
                            /\ last' = Done("fetch", "None", "none", o, call)
                    /\ pc' = "idle"
                    /\ call' = NoCall
             [] d = "raise" ->
                    /\ Handle("RequestException", o, call)
                    /\ pc' = "idle"
                    /\ call' = NoCall
    /\ UNCHANGED <<delay_seconds, max_retries, runCalls, runs,
                   tickerVars, sentimentVars, extractVars, contextVars,
                   timingVars, isolationVars, schemaVars, pagingVars>>

----------------------------------------------------------------------------
(* BaseScraper.start_scraping / end_scraping, also __enter__ / __exit__ *)

StartScraping ==
    /\ pc = "idle"
    /\ stats' = [stats EXCEPT !.start_time = now]
    /\ last' = Done("start_scraping", "None", "none", NoOutcome, NoCall)
    /\ runs' = runs + 1
    /\ runCalls' = 0
    /\ UNCHANGED <<delay_seconds, max_retries, now, pc, call,
                   tickerVars, sentimentVars, extractVars, timingVars,
                   isolationVars, schemaVars, pagingVars>>

EndScraping ==
    /\ pc = "idle"
    /\ stats' = [stats EXCEPT !.end_time = now]
    /\ last' = Done("end_scraping", "None", "none", NoOutcome, NoCall)
    /\ UNCHANGED <<delay_seconds, max_retries, now, pc, call, runCalls, runs,
                   tickerVars, sentimentVars, extractVars, timingVars,
                   isolationVars, schemaVars, pagingVars>>

\* a concrete scraper counting an item it produced
ItemScraped ==
    /\ pc = "idle"
    /\ stats' = [stats EXCEPT !.items_scraped = @ + 1]
    /\ last' = Done("item", "None", "none", NoOutcome, NoCall)
    /\ UNCHANGED <<delay_seconds, max_retries, now, pc, call, runCalls, runs,
                   tickerVars, sentimentVars, extractVars, contextVars,
                   timingVars, isolationVars, schemaVars, pagingVars>>

\* time passing between two operations
Tick ==
    /\ pc = "idle"
    /\ now' = now + 1
    /\ UNCHANGED <<delay_seconds, max_retries, stats, pc, call, last,
                   runCalls, runs,
                   tickerVars, sentimentVars, extractVars, contextVars,
                   timingVars, isolationVars, schemaVars, pagingVars>>

----------------------------------------------------------------------------
(* History variables, written beside the operations they observe *)

\* the attempts of the call in progress, in order
TraceCall == trace' = <<>>
TraceAttempt(o) == trace' = Append(trace, o)

\* when requests go on the wire, and when calls end
RateCall ==
    /\ lastFinish' = IF pc' = "idle" THEN now' ELSE lastFinish
    /\ UNCHANGED lastIssue
RateAttempt ==
    /\ lastIssue' = [call |-> stats.requests_made, at |-> now,
                     prevFinish |-> lastFinish]
    /\ lastFinish' = IF pc' = "idle" THEN now' ELSE lastFinish

InitTickers ==
    /\ text = <<>>
    /\ tickers = <<>>
    /\ detected = FALSE
    /\ raised = "none"

\* no call of analyze_text yet
NoNative == [library |-> "none"]
NoAnalysis == [text |-> <<>>, model |-> "vader", native |-> NoNative]
NoResult == [exc |-> "none"]

InitSentiment ==
    /\ analysis = NoAnalysis
    /\ result = NoResult
    /\ analyzed = FALSE

InitExtract ==
    /\ document = <<>>
    /\ markup = <<>>
    /\ plain = <<>>
    /\ extracted = FALSE

\* self.session = self._create_session(); no with statement entered
InitContext ==
    /\ session = "open"
    /\ scope = "outside"
    /\ escaped = "none"

\* no call of analyze_text in progress
InitTiming ==
    /\ step = "idle"
    /\ startedAt = NoTime
    /\ scoredAt = NoTime

\* one instance, A, alone
InitIsolation ==
    /\ active = "A"
    /\ parked = [instance |-> "none"]
    /\ issued = [i \in {"A"} |-> 0]

\* no input under validation
InitSchema ==
    /\ payload = [article_id |-> [type |-> "missing", n |-> 0],
                  reddit_post_id |-> [type |-> "missing", n |-> 0]]
    /\ values = <<>>
    /\ errors = {}
    /\ cursor = "done"

\* no request made; skip and limit at their defaults
InitPaging ==
    /\ request = [skip |-> 0, limit |-> 10]
    /\ stored = 0
    /\ response = [status |-> "none"]

Init ==
    /\ InitScraper
    /\ InitTickers
    /\ InitSentiment
    /\ InitExtract
    /\ InitContext
    /\ InitTiming
    /\ InitIsolation
    /\ InitSchema
    /\ InitPaging

----------------------------------------------------------------------------
(* BaseScraper.__enter__ and __exit__ *)

\* __enter__: start_scraping(), return self
EnterScope ==
    /\ scope = "outside"
    /\ StartScraping
    /\ scope' = "body"
    /\ UNCHANGED <<session, escaped>>

\* a variant of __exit__ that returns True
ExitSwallows == TRUE

\* what __exit__ returns, as a truth value: it has no return statement
ExitReturns == FALSE

\* a requests.Session defines neither __bool__ nor __len__
SessionTruthy == TRUE

\* the exceptions the body of the with statement can end with, "none" for a
\* body that completes
BodyEnds == {"none", "Exception"}

\* the with statement leaves its body with exc: __exit__(type, value, tb)
\* runs end_scraping() and closes the session, and the statement raises exc
\* again unless __exit__ returned a true value
ExitScope(exc) ==
    /\ scope = "body"
    /\ EndScraping
    /\ session' = IF SessionTruthy THEN "closed" ELSE session
    /\ escaped' = IF exc # "none" /\ ~ExitReturns THEN exc ELSE "none"
    /\ scope' = IF exc = "none" THEN "completed" ELSE "raised"

----------------------------------------------------------------------------
(* Spec: statistics and sessions.  Attempts take no time here; the clock   *)
(* advances by the rate-limiting sleeps.                                   *)

Fetch ==
    /\ stats.requests_made < MaxCalls
    /\ \E m \in Methods, k \in Options : FetchCall(m, k, 0)
    /\ UNCHANGED <<traceVars, rateVars>>

Answer ==
    /\ \E o \in Outcomes : Attempt(o, 0)
    /\ UNCHANGED <<traceVars, rateVars>>

Start ==
    /\ runs < MaxRuns
    /\ StartScraping
    /\ UNCHANGED <<traceVars, rateVars, contextVars>>

End ==
    /\ EndScraping
    /\ UNCHANGED <<traceVars, rateVars, contextVars>>

Item ==
    /\ stats.items_scraped < MaxItems
    /\ ItemScraped
    /\ UNCHANGED <<traceVars, rateVars>>

Next == Fetch \/ Answer \/ Start \/ End \/ Item

Spec == Init /\ [][Next]_vars

----------------------------------------------------------------------------
(* SpecRetry: the calls of one instance with the outcome of every HTTP     *)
(* attempt recorded.                                                       *)

RetryFetch ==
    /\ stats.requests_made < MaxCalls
    /\ \E m \in Methods : FetchCall(m, "none", 0)
    /\ TraceCall
    /\ UNCHANGED rateVars

RetryAnswer ==
    /\ \E o \in Outcomes : Attempt(o, 0) /\ TraceAttempt(o)
    /\ UNCHANGED rateVars

NextRetry == RetryFetch \/ RetryAnswer

SpecRetry == Init /\ [][NextRetry]_vars

----------------------------------------------------------------------------
(* SpecRate: the clock advances between calls, during the sleep and during *)
(* each attempt, and the time of every request on the wire is recorded.    *)

RateFetch ==
    /\ stats.requests_made < MaxCalls
    /\ \E m \in Methods, k \in Options, e \in 0..1 : FetchCall(m, k, e)
    /\ now' <= MaxTime
    /\ RateCall
    /\ UNCHANGED traceVars

RateAnswer ==
    /\ \E o \in FewOutcomes, d \in 0..1 : Attempt(o, d)
    /\ now' <= MaxTime
    /\ RateAttempt
    /\ UNCHANGED traceVars

RateTick ==
    /\ now < MaxTime
    /\ Tick
    /\ UNCHANGED <<traceVars, rateVars>>

NextRate == RateFetch \/ RateAnswer \/ RateTick

SpecRate == Init /\ [][NextRate]_vars

----------------------------------------------------------------------------
(* Properties of _make_request, start_scraping and end_scraping *)

FetchDone == pc = "idle" /\ last.op = "fetch"

Plus(c, made, ok, failed) ==
    [requests_made |-> c.requests_made + made,
     successful_requests |-> c.successful_requests + ok,
     failed_requests |-> c.failed_requests + failed]

\* C1: _make_request never raises: whatever the url, method, options and the
\* outcome of the HTTP exchange, the call hands a value back (the response,
\* or None) and no exception leaves it.
C1_NeverRaises == last.op = "fetch" => last.ret \in {"response", "None"}

\* C2: every HTTP request of a call other than the first call on the instance
\* goes on the wire at least delay_seconds after the previous call ended, and
\* requests go on the wire in the order of the calls.
C2_RateLimited ==
    /\ [](lastIssue.call > 1 =>
            /\ lastIssue.prevFinish # NoTime
            /\ lastIssue.at - lastIssue.prevFinish >= delay_seconds)
    /\ [][/\ lastIssue'.call >= lastIssue.call
          /\ lastIssue'.at >= lastIssue.at]_vars

\* a second call whose request leaves exactly delay_seconds after the first ended
C2_Witness ==
    /\ lastIssue.call = 2
    /\ delay_seconds = 2
    /\ lastIssue.at - lastIssue.prevFinish = delay_seconds

\* the scenario of C3: one call, max_retries = 3, answers 503, 503, 200
RetryThenSuccess ==
    /\ FetchDone
    /\ max_retries = 3
    /\ trace = <<Response(503, FALSE), Response(503, FALSE), Response(200, FALSE)>>

\* C3 as stated: the call returns the 200 response and the statistics of a
\* fresh instance then show requests_made = 3, successful_requests = 1 and
\* failed_requests = 0.
C3_ThreeRequestsRecorded ==
    (RetryThenSuccess /\ last.pre.requests_made = 0) =>
        /\ last.ret = "response"
        /\ Counters(stats) = Plus(last.pre, 3, 1, 0)

\* C3 amended: with max_retries = 3 and answers 503, 503, 200 the call returns
\* the 200 response after 3 HTTP attempts; requests_made grows by 1 (it counts
\* calls, not attempts), successful_requests by 1, failed_requests by 0.
C3_OneRequestRecorded ==
    RetryThenSuccess =>
        /\ last.ret = "response"
        /\ last.final = Response(200, FALSE)
        /\ Len(trace) = 3
        /\ Counters(stats) = Plus(last.pre, 1, 1, 0)

C3_Witness == RetryThenSuccess /\ stats.requests_made = 1

AllAnswers503 ==
    /\ trace # <<>>
    /\ \A i \in 1..Len(trace) : trace[i] = Response(503, FALSE)

\* C4: a call all of whose HTTP answers are 503 returns None and adds exactly 1
\* to failed_requests, however many attempts were made; successful_requests is
\* unchanged.
C4_ExhaustionIsOneFailure ==
    (FetchDone /\ AllAnswers503) =>
        /\ last.ret = "None"
        /\ stats.failed_requests = last.pre.failed_requests + 1
        /\ stats.successful_requests = last.pre.successful_requests

\* max_retries = 3, four answers of 503
C4_Witness ==
    /\ FetchDone
    /\ AllAnswers503
    /\ max_retries = 3
    /\ Len(trace) = 4
    /\ last.ret = "None"

\* C5: an idempotent request is re-attempted if and only if the response
\* status is 429, 500, 502, 503 or 504, at most max_retries times; a response
\* with any other non-200 status ends the call after exactly one attempt, with
\* None and failed_requests + 1.
C5_RetryOnlyOnForcelist ==
    (FetchDone /\ last.method \in AllowedMethods /\ trace # <<>>) =>
        /\ Len(trace) <= max_retries + 1
        /\ \A i \in 1..(Len(trace) - 1) :
                trace[i].kind = "response" => trace[i].status \in StatusForcelist
        /\ (last.final.kind = "response" /\ last.final.status \in StatusForcelist)
                => Len(trace) = max_retries + 1
        /\ (trace[1].kind = "response" /\ trace[1].status \notin StatusForcelist)
                => Len(trace) = 1
        /\ (last.final.kind = "response"
              /\ last.final.status \notin StatusForcelist \cup {200})
                => /\ last.ret = "None"
                   /\ stats.failed_requests = last.pre.failed_requests + 1

\* C6: a call whose final response has status 200 returns the response and
\* adds 1 to successful_requests only; with any other final status (other 2xx
\* and 3xx included) it returns None and adds 1 to failed_requests only; no
\* step of the call changes items_scraped, start_time or end_time.
C6_OutcomeAccounting ==
    /\ []((FetchDone /\ last.final.kind = "response") =>
            IF last.final.status = 200
            THEN /\ last.ret = "response"
                 /\ Counters(stats) = Plus(last.pre, 1, 1, 0)
            ELSE /\ last.ret = "None"
                 /\ Counters(stats) = Plus(last.pre, 1, 0, 1))
    /\ [][(pc = "request" \/ pc' = "request" \/ runCalls' = runCalls + 1) =>
            /\ stats'.items_scraped = stats.items_scraped
            /\ stats'.start_time = stats.start_time
            /\ stats'.end_time = stats.end_time]_vars

\* a 204 answered inside a session that has counted an item
C6_Witness ==
    /\ FetchDone
    /\ last.final = Response(204, FALSE)
    /\ last.ret = "None"
    /\ stats.items_scraped = 1
    /\ stats.start_time # NoTime

C8_StatsResetAtStart ==
    /\ last.op = "start_scraping" =>
            /\ Counters(stats) = Counters(InitStats)
            /\ stats.items_scraped = 0
            /\ stats.end_time = NoTime
    /\ last.op = "end_scraping" =>
            /\ stats.end_time # NoTime
            /\ stats.start_time # NoTime => stats.end_time >= stats.start_time

\* C9: a failed call does not stop the batch, and after N calls in a run the
\* statistics show the successes and failures among those N:
\* successful_requests + failed_requests = N.
C9_RunCountsAddUp ==
    (pc = "idle" /\ runs >= 1) =>
        stats.successful_requests + stats.failed_requests = runCalls

----------------------------------------------------------------------------
(* Text: a str is a sequence of one-character strings *)

\* the characters of the texts, in code-point order
Ascii ==
    <<
      " ", "$", "(", ")", ",", ":", "A", "B", "C", "D", "E", "F", "G",
      "H", "I", "J", "K", "L", "M", "N", "O", "P", "Q", "R", "S", "T",
      "U", "V", "W", "X", "Y", "Z", "_", "a", "b", "c", "d", "e", "f",
      "g", "h", "i", "j", "k", "l", "m", "n", "o", "p", "q", "r", "s",
      "t", "u", "v", "w", "x", "y", "z">>

Ord(c) == CHOOSE i \in 1..Len(Ascii) : Ascii[i] = c

UpperLetters == {Ascii[i] : i \in Ord("A")..Ord("Z")}
LowerLetters == {Ascii[i] : i \in Ord("a")..Ord("z")}

\* str.upper(), one character
UpperChar(c) ==
    IF c \in LowerLetters THEN Ascii[Ord(c) - Ord("a") + Ord("A")] ELSE c

\* text.upper()
Upper(t) == [i \in 1..Len(t) |-> UpperChar(t[i])]

\* the regex classes [A-Z], \w and \s
IsAZ(c) == c \in UpperLetters
IsWordChar(c) == c \in UpperLetters \cup LowerLetters \cup {"_"}
IsSpace(c) == c = " "

\* \b before position i of u
WordBoundary(u, i) ==
    LET before == i > 1 /\ IsWordChar(u[i - 1])
        after == i <= Len(u) /\ IsWordChar(u[i])
    IN  before # after

\* does u hold the literal w from position i on
LiteralAt(u, i, w) ==
    /\ i + Len(w) - 1 <= Len(u)
    /\ \A j \in 1..Len(w) : u[i + j - 1] = w[j]

\* the length of the run of characters of class [A-Z] from position i, up to most
RECURSIVE LetterRun(_, _, _)
LetterRun(u, i, most) ==
    IF most = 0 \/ i > Len(u) \/ ~IsAZ(u[i]) THEN 0
    ELSE 1 + LetterRun(u, i + 1, most - 1)

\* the length of the run of \s from position i
RECURSIVE SpaceRun(_, _)
SpaceRun(u, i) ==
    IF i > Len(u) \/ ~IsSpace(u[i]) THEN 0 ELSE 1 + SpaceRun(u, i + 1)

----------------------------------------------------------------------------
(* BaseScraper._detect_ticker_symbols *)

\* {1,5} of the three patterns
MaxSymbol == 5

\* the literal after \s+ in the second pattern
StockWord == <<"s", "t", "o", "c", "k">>

\* the alternatives of the first group of the third pattern
ExchangePrefixes ==
    {<<"N", "A", "S", "D", "A", "Q", ":">>, <<"N", "Y", "S", "E", ":">>}

\* a variant of the first pattern that takes whole words only:
\* r'\$([A-Z]{1,5})\b'
RECURSIVE FindDollarWhole(_, _)
FindDollarWhole(u, i) ==
    IF i > Len(u) THEN <<>>
    ELSE LET n == LetterRun(u, i + 1, MaxSymbol)
         IN  IF u[i] = "$" /\ n >= 1 /\ WordBoundary(u, i + 1 + n)
             THEN <<SubSeq(u, i + 1, i + n)>> \o FindDollarWhole(u, i + 1 + n)
             ELSE FindDollarWhole(u, i + 1)

\* re.findall(r'\$([A-Z]{1,5})', u) from position i: the list of group 1
RECURSIVE FindDollar(_, _)
FindDollar(u, i) ==
    IF i > Len(u) THEN <<>>
    ELSE LET n == LetterRun(u, i + 1, MaxSymbol)
         IN  IF u[i] = "$" /\ n >= 1
             THEN <<SubSeq(u, i + 1, i + n)>> \o FindDollar(u, i + 1 + n)
             ELSE FindDollar(u, i + 1)

\* re.findall(r'\b([A-Z]{1,5})\s+stock', u) from position i: the list of
\* group 1.  The letters must end where the white space starts and the white
\* space where the literal starts, so both runs are taken whole.
RECURSIVE FindStock(_, _)
FindStock(u, i) ==
    IF i > Len(u) THEN <<>>
    ELSE LET n == LetterRun(u, i, MaxSymbol)
             sp == SpaceRun(u, i + n)
         IN  IF /\ WordBoundary(u, i)
                /\ n >= 1
                /\ sp >= 1
                /\ LiteralAt(u, i + n + sp, StockWord)
             THEN <<SubSeq(u, i, i + n - 1)>>
                      \o FindStock(u, i + n + sp + Len(StockWord))
             ELSE FindStock(u, i + 1)

\* re.findall(r'\b(NASDAQ:|NYSE:)([A-Z]{1,5})', u) from position i: the list
\* of (group 1, group 2) tuples
RECURSIVE FindExchange(_, _)
FindExchange(u, i) ==
    IF i > Len(u) THEN <<>>
    ELSE LET here == {p \in ExchangePrefixes : LiteralAt(u, i, p)}
         IN  IF WordBoundary(u, i) /\ here # {}
             THEN LET p == CHOOSE q \in here : TRUE
                      n == LetterRun(u, i + Len(p), MaxSymbol)
                  IN  IF n >= 1
                      THEN <<<<p, SubSeq(u, i + Len(p), i + Len(p) + n - 1)>>>>
                               \o FindExchange(u, i + Len(p) + n)
                      ELSE FindExchange(u, i + 1)
             ELSE FindExchange(u, i + 1)

\* tickers.update(...) for the matches of one pattern: the last group of each
\* tuple, or the matches themselves
Range(q) == {q[i] : i \in 1..Len(q)}

\* a variant that reads matches[0] of an empty list
MatchKindUnguarded(matches, tuples) ==
    IF matches = <<>> THEN "IndexError"
    ELSE IF tuples THEN "tuple" ELSE "str"

\* isinstance(matches[0], tuple) if matches else False
MatchKind(matches, tuples) ==
    IF matches # <<>>
    THEN IF tuples THEN "tuple" ELSE "str"
    ELSE "str"

Groups(matches, tuples) ==
    IF MatchKind(matches, tuples) = "tuple"
    THEN {m[Len(m)] : m \in Range(matches)}
    ELSE Range(matches)

\* re.findall(pattern, text.upper()) for the three patterns
PatternMatches(t) ==
    <<FindDollar(Upper(t), 1), FindStock(Upper(t), 1),
      FindExchange(Upper(t), 1)>>

\* the set built by the loop over the matches m of the three patterns
Candidates(m) ==
    Groups(m[1], FALSE) \cup Groups(m[2], FALSE) \cup Groups(m[3], TRUE)

false_positives ==
    {
     <<"T", "H", "E">>, <<"A", "N", "D">>, <<"F", "O", "R">>, <<"A", "R", "E">>,
     <<"B", "U", "T">>, <<"N", "O", "T">>, <<"Y", "O", "U">>, <<"A", "L", "L">>,
     <<"C", "A", "N">>, <<"H", "E", "R">>, <<"W", "A", "S">>, <<"O", "N", "E">>,
     <<"O", "U", "R">>, <<"O", "U", "T">>, <<"D", "A", "Y">>, <<"G", "E", "T">>,
     <<"H", "A", "S">>, <<"H", "I", "M">>, <<"H", "I", "S">>, <<"H", "O", "W">>,
     <<"I", "T", "S">>, <<"M", "A", "Y">>, <<"N", "E", "W">>, <<"N", "O", "W">>,
     <<"O", "L", "D">>, <<"S", "E", "E">>, <<"T", "W", "O">>, <<"W", "H", "O">>,
     <<"B", "O", "Y">>, <<"D", "I", "D">>, <<"L", "E", "T">>, <<"P", "U", "T">>,
     <<"S", "A", "Y">>, <<"S", "H", "E">>, <<"T", "O", "O">>, <<"U", "S", "E">>}

\* a variant that filters on the length only
KeepByLength(t) == Len(t) <= MaxSymbol

\* t not in false_positives and len(t) <= 5
Keep(t) == t \notin false_positives /\ Len(t) <= MaxSymbol

\* str comparison: lexicographic by code point
RECURSIVE StrLess(_, _)
StrLess(a, b) ==
    IF a = <<>> THEN b # <<>>
    ELSE IF b = <<>> THEN FALSE
    ELSE IF a[1] = b[1] THEN StrLess(Tail(a), Tail(b))
    ELSE Ord(a[1]) < Ord(b[1])

\* the elements of a set of str in ascending order
RECURSIVE Sorted(_)
Sorted(S) ==
    IF S = {} THEN <<>>
    ELSE LET m == CHOOSE x \in S : \A y \in S \ {x} : StrLess(x, y)
         IN  <<m>> \o Sorted(S \ {m})

\* tickers after the filter of the stop-list and the length
Kept(m) == {c \in Candidates(m) : Keep(c)}

\* list(tickers): the elements of a set once each, in the iteration order of
\* the set, which depends on the hash seed of the process
RECURSIVE ListOf(_)
ListOf(S) ==
    IF S = {} THEN {<<>>}
    ELSE UNION {{<<x>> \o l : l \in ListOf(S \ {x})} : x \in S}

\* a variant that returns the list in the order it came
KeepOrder(q) == q

\* sorted(...) of a list of str
RECURSIVE InsertSorted(_, _)
InsertSorted(x, q) ==
    IF q = <<>> THEN <<x>>
    ELSE IF StrLess(x, q[1]) THEN <<x>> \o q
    ELSE <<q[1]>> \o InsertSorted(x, Tail(q))

RECURSIVE SortList(_)
SortList(q) ==
    IF q = <<>> THEN <<>> ELSE InsertSorted(q[1], SortList(Tail(q)))

\* whether the loop over the patterns ends with an exception
Raises(m) ==
    \/ MatchKind(m[1], FALSE) = "IndexError"
    \/ MatchKind(m[2], FALSE) = "IndexError"
    \/ MatchKind(m[3], TRUE) = "IndexError"

\* the ways a call of _detect_ticker_symbols(t) can end: the exception
\* raised, or "none" and the list returned
DetectTickerSymbols(t) ==
    UNION {IF Raises(m) THEN {[raised |-> "IndexError", tickers |-> <<>>]}
           ELSE {[raised |-> "none", tickers |-> SortList(l)] :
                    l \in ListOf(Kept(m))} :
           m \in {PatternMatches(t)}}

----------------------------------------------------------------------------
(* SpecTickers: _detect_ticker_symbols applied to a text *)

\* texts are made of at most MaxFragments of these pieces
MaxFragments == 4

Fragments ==
    {<<"$">>, <<"a">>, <<" ">>, <<"T", "H", "E">>,
     <<"G", "O", "O", "G", "L", "E">>, <<"N", "Y", "S", "E", ":">>,
     <<"N", "A", "S", "D", "A", "Q", ":">>, <<" ", "s", "t", "o", "c", "k">>}

RECURSIVE TextsOf(_)
TextsOf(n) ==
    IF n = 0 THEN {<<>>}
    ELSE LET shorter == TextsOf(n - 1)
         IN  shorter \cup {p \o f : p \in shorter, f \in Fragments}

\* "Apple ($AAPL) beats on strong iPhone sales, NASDAQ:MSFT also rallies"
ExampleText ==
    <<
      "A", "p", "p", "l", "e", " ", "(", "$", "A", "A", "P", "L", ")",
      " ", "b", "e", "a", "t", "s", " ", "o", "n", " ", "s", "t", "r",
      "o", "n", "g", " ", "i", "P", "h", "o", "n", "e", " ", "s", "a",
      "l", "e", "s", ",", " ", "N", "A", "S", "D", "A", "Q", ":", "M",
      "S", "F", "T", " ", "a", "l", "s", "o", " ", "r", "a", "l", "l",
      "i", "e", "s">>

Texts == TextsOf(MaxFragments) \cup {ExampleText}

InitDetect ==
    /\ InitScraper
    /\ delay_seconds = 0
    /\ max_retries = 0
    /\ text \in Texts
    /\ tickers = <<>>
    /\ detected = FALSE
    /\ raised = "none"
    /\ InitSentiment
    /\ InitExtract
    /\ InitContext
    /\ InitTiming
    /\ InitIsolation
    /\ InitSchema
    /\ InitPaging

\* one call on the text, the first or a repeated one
DetectTickers ==
    /\ \E end \in DetectTickerSymbols(text) :
           /\ raised' = end.raised
           /\ tickers' = IF end.raised = "none" THEN end.tickers ELSE tickers
    /\ detected' = TRUE
    /\ UNCHANGED <<text, progVars, traceVars, rateVars, sentimentVars,
                   extractVars, contextVars, timingVars, isolationVars,
                   schemaVars, pagingVars>>

NextTickers == DetectTickers

SpecTickers == InitDetect /\ [][NextTickers]_vars

\* C10: every element _detect_ticker_symbols returns is a string of 1 to 5
\* letters A-Z that is not in the stop-list, and no element is returned twice.
C10_TickersWellFormed ==
    detected =>
        /\ \A i \in 1..Len(tickers) :
                /\ Len(tickers[i]) \in 1..5
                /\ \A j \in 1..Len(tickers[i]) : tickers[i][j] \in UpperLetters
                /\ tickers[i] \notin false_positives
        /\ \A i, j \in 1..Len(tickers) : i # j => tickers[i] # tickers[j]

\* "$THE$a": a stop-list word and a lower-case symbol
C10_Witness ==
    /\ detected
    /\ text = <<"$", "T", "H", "E", "$", "a">>
    /\ tickers = << <<"A">> >>

----------------------------------------------------------------------------
(* The mentions of a symbol in a text, as the description of the detector *)
(* words them                                                             *)

IsLetter(c) == c \in UpperLetters \cup LowerLetters

\* the length of the run of letters of either case from position i
RECURSIVE TokenRun(_, _)
TokenRun(t, i) ==
    IF i > Len(t) \/ ~IsLetter(t[i]) THEN 0 ELSE 1 + TokenRun(t, i + 1)

\* the bare tokens of 1 to 5 letters of t that are followed by white space and
\* the word "stock", in upper case
StockMentions(t) ==
    {Upper(SubSeq(t, i, i + TokenRun(t, i) - 1)) :
        i \in {k \in 1..Len(t) :
                  /\ WordBoundary(t, k)
                  /\ TokenRun(t, k) \in 1..MaxSymbol
                  /\ SpaceRun(t, k + TokenRun(t, k)) >= 1
                  /\ LiteralAt(t, k + TokenRun(t, k)
                                    + SpaceRun(t, k + TokenRun(t, k)),
                               StockWord)}}

\* C11: for every text that holds a bare token of 1 to 5 letters followed by
\* white space and the word "stock", the sequence _detect_ticker_symbols
\* returns contains that token in upper case, unless it is a stop-list word.
C11_StockMentionDetected ==
    detected =>
        \A s \in StockMentions(text) :
            s \notin false_positives => s \in Range(tickers)

\* the three pattern classes as the description words them, on the
\* upper-cased text u: a symbol after "$", a token before the word "stock",
\* a symbol after an exchange prefix (the symbol only)
DollarClass(u) == Range(FindDollar(u, 1))
StockClass(u) ==
    {SubSeq(u, i, i + TokenRun(u, i) - 1) :
        i \in {k \in 1..Len(u) :
                  /\ WordBoundary(u, k)
                  /\ TokenRun(u, k) \in 1..MaxSymbol
                  /\ SpaceRun(u, k + TokenRun(u, k)) >= 1
                  /\ LiteralAt(u, k + TokenRun(u, k)
                                    + SpaceRun(u, k + TokenRun(u, k)),
                               Upper(StockWord))}}
ExchangeClass(u) == {m[2] : m \in Range(FindExchange(u, 1))}

ExampleTickers == <<<<"A", "A", "P", "L">>, <<"M", "S", "F", "T">>>>

\* C12: _detect_ticker_symbols returns exactly the union of the matches of
\* the three pattern classes on the upper-cased text, minus the stop-list
\* words and the candidates longer than 5 characters; the example text
\* yields ["AAPL", "MSFT"].
C12_UnionOfThreeClasses ==
    detected =>
        /\ Range(tickers) =
               {c \in DollarClass(Upper(text)) \cup StockClass(Upper(text))
                          \cup ExchangeClass(Upper(text)) :
                    c \notin false_positives /\ Len(c) <= MaxSymbol}
        /\ text = ExampleText => tickers = ExampleTickers

StrictlyAscending(q) ==
    \A i, j \in 1..Len(q) : i < j => StrLess(q[i], q[j])

\* C13: the sequence _detect_ticker_symbols returns is in strictly ascending
\* lexicographic order and is the ascending enumeration of a set that the
\* text determines, whatever the order of the symbols in the text and of the
\* set's iteration; a repeated call on the same text returns the identical
\* sequence.
C13_SortedAndDeterministic ==
    /\ [](detected =>
            /\ StrictlyAscending(tickers)
            /\ tickers = Sorted((DollarClass(Upper(text))
                                     \cup ExchangeClass(Upper(text)))
                                \ false_positives))
    /\ [][detected /\ text' = text => tickers' = tickers]_vars

\* "$GOOGLE$a": the symbols appear in descending order in the text
C13_Witness ==
    /\ detected
    /\ text = <<"$", "G", "O", "O", "G", "L", "E", "$", "a">>
    /\ tickers = <<<<"A">>, <<"G", "O", "O", "G", "L">>>>

\* the symbols among the matches of one pattern that pass the filter
Passing(matches) == {c \in Range(matches) : Keep(c)}

\* C14: _detect_ticker_symbols raises for no text; a pattern with no match
\* contributes nothing while the matches of the other patterns are returned,
\* and a text with no match at all, the empty text included, yields the empty
\* sequence.
C14_NeverFails ==
    detected =>
        \A m \in {PatternMatches(text)} :
            \A from \in {<<Passing(m[1]), Passing(m[2]),
                            Passing([i \in 1..Len(m[3]) |-> m[3][i][2]]),
                            Range(tickers)>>} :
                /\ raised = "none"
                /\ from[4] = from[1] \cup from[2] \cup from[3]
                /\ m[1] = <<>> => from[4] = from[2] \cup from[3]
                /\ m[2] = <<>> => from[4] = from[1] \cup from[3]
                /\ m[3] = <<>> => from[4] = from[1] \cup from[2]
                /\ (m[1] = <<>> /\ m[2] = <<>> /\ m[3] = <<>>) =>
                       tickers = <<>>
                /\ text = <<>> => tickers = <<>>

\* "NYSE:a": two patterns without a match, one with a match
C14_Witness ==
    /\ detected
    /\ raised = "none"
    /\ text = <<"N", "Y", "S", "E", ":", "a">>
    /\ FindDollar(Upper(text), 1) = <<>>
    /\ FindStock(Upper(text), 1) = <<>>
    /\ tickers = <<<<"A">>>>

----------------------------------------------------------------------------
(* SentimentAnalyzer.analyze_text *)

\* scores are counted in hundredths: 100 is the float 1.0
Scale == 100

Abs(x) == IF x < 0 THEN -x ELSE x
Max(a, b) == IF a >= b THEN a ELSE b

\* a variant that counts the pieces between single spaces: text.split(" ")
WordCountBySpaces(t) == 1 + Cardinality({i \in 1..Len(t) : IsSpace(t[i])})

\* len(text.split()): the maximal runs of characters that are not white space
WordCount(t) ==
    Cardinality({i \in 1..Len(t) :
                    ~IsSpace(t[i]) /\ (i = 1 \/ IsSpace(t[i - 1]))})

\* the compound score at which the lexicon model leaves "neutral"
VaderThreshold == 5

\* the polarity at which the polarity model leaves "neutral"
TextblobThreshold == 10

\* a variant with exclusive thresholds
VaderLabelStrict(compound) ==
    IF compound > VaderThreshold THEN "positive"
    ELSE IF compound < -VaderThreshold THEN "negative"
    ELSE "neutral"

VaderLabel(compound) ==
    IF compound >= VaderThreshold THEN "positive"
    ELSE IF compound <= -VaderThreshold THEN "negative"
    ELSE "neutral"

\* _analyze_vader, given scores = self.vader.polarity_scores(text)
AnalyzeVader(scores) ==
    [compound_score |-> scores.compound,
     positive_score |-> scores.pos,
     negative_score |-> scores.neg,
     neutral_score |-> scores.neu,
     sentiment_label |-> VaderLabel(scores.compound),
     confidence |-> Max(scores.pos, Max(scores.neg, scores.neu))]

TextblobLabel(polarity) ==
    IF polarity >= TextblobThreshold THEN "positive"
    ELSE IF polarity <= -TextblobThreshold THEN "negative"
    ELSE "neutral"

\* a variant that forgets the sign of the polarity
NeutralMassSigned(polarity) == Scale - polarity

\* neu_score = 1 - abs(polarity)
NeutralMass(polarity) == Scale - Abs(polarity)

\* x /= total, in hundredths
Normalized(x, total) == IF total > 0 THEN (x * Scale) \div total ELSE x

\* _analyze_textblob, given sentiment = TextBlob(text).sentiment
AnalyzeTextblob(sentiment) ==
    LET polarity == sentiment.polarity
        pos_score == IF polarity > 0 THEN polarity ELSE 0
        neg_score == IF polarity > 0 THEN 0 ELSE Abs(polarity)
        neu_score == NeutralMass(polarity)
        total == pos_score + neg_score + neu_score
    IN  [compound_score |-> polarity,
         positive_score |-> Normalized(pos_score, total),
         negative_score |-> Normalized(neg_score, total),
         neutral_score |-> Normalized(neu_score, total),
         sentiment_label |-> TextblobLabel(polarity),
         confidence |-> Abs(polarity),
         subjectivity |-> sentiment.subjectivity]

\* a variant that scores an unknown model name with the lexicon model
StrategyDefaulting(model) ==
    IF model = "textblob" THEN "_analyze_textblob" ELSE "_analyze_vader"

\* the if / elif / else on the model name
Strategy(model) ==
    IF model = "vader" THEN "_analyze_vader"
    ELSE IF model = "textblob" THEN "_analyze_textblob"
    ELSE "ValueError"

\* the metadata of result.update(...)
Metadata(a) ==
    [model_name |-> a.model,
     text_length |-> Len(a.text),
     word_count |-> WordCount(a.text)]

\* analyze_text(text, model): the dict returned, or the exception raised
AnalyzeTextResult(a) ==
    IF Strategy(a.model) = "_analyze_vader"
    THEN [exc |-> "none"] @@ Metadata(a) @@ AnalyzeVader(a.native)
    ELSE IF Strategy(a.model) = "_analyze_textblob"
    THEN [exc |-> "none"] @@ Metadata(a) @@ AnalyzeTextblob(a.native)
    ELSE [exc |-> "ValueError"]

----------------------------------------------------------------------------
(* SpecSentiment: analyze_text applied to a text and a model name *)

\* texts have at most MaxTextLen characters
MaxTextLen == 3

SentimentChars == {"a", " "}
SentimentTexts == UNION {[1..n -> SentimentChars] : n \in 0..MaxTextLen}

\* the registered names and a name that is not registered
ModelNames == {"vader", "textblob", "bert"}

\* SentimentIntensityAnalyzer.polarity_scores(t): for a text without a word
\* all four scores are 0.0; otherwise the three proportions sum to 1
Compounds == {-Scale, -7, -5, -4, 0, 4, 5, 7, Scale}
Proportions == {0, Scale \div 2, Scale}
VaderEmpty == [neg |-> 0, neu |-> 0, pos |-> 0, compound |-> 0]
PolarityScores(t) ==
    IF WordCount(t) = 0 THEN {VaderEmpty}
    ELSE {[neg |-> m[1], neu |-> m[2], pos |-> m[3], compound |-> c] :
             m \in {x \in Proportions \X Proportions \X Proportions :
                        x[1] + x[2] + x[3] = Scale},
             c \in Compounds}

\* TextBlob(t).sentiment: polarity in [-1, 1] and subjectivity in [0, 1]; both
\* are 0.0 for a text without a word
Polarities == {-Scale, -60, -10, -9, -7, 0, 7, 9, 10, 60, Scale}
Subjectivities == {0, Scale}
BlobEmpty == [polarity |-> 0, subjectivity |-> 0]
BlobSentiment(t) ==
    IF WordCount(t) = 0 THEN {BlobEmpty}
    ELSE {[polarity |-> p, subjectivity |-> s] :
             p \in Polarities, s \in Subjectivities}

\* the output of the library that the strategy for the model name calls
NativeOutputs(model, t) ==
    IF Strategy(model) = "_analyze_vader" THEN PolarityScores(t)
    ELSE IF Strategy(model) = "_analyze_textblob" THEN BlobSentiment(t)
    ELSE {NoNative}

Analyses ==
    UNION {{[text |-> t, model |-> m, native |-> o] :
               o \in NativeOutputs(m, t)} :
           t \in SentimentTexts, m \in ModelNames}

InitAnalyze ==
    /\ InitScraper
    /\ delay_seconds = 0
    /\ max_retries = 0
    /\ InitTickers
    /\ InitExtract
    /\ InitContext
    /\ InitTiming
    /\ InitIsolation
    /\ InitSchema
    /\ InitPaging
    /\ analysis \in Analyses
    /\ result = NoResult
    /\ analyzed = FALSE

AnalyzeText ==
    /\ result' = AnalyzeTextResult(analysis)
    /\ analyzed' = TRUE
    /\ UNCHANGED <<analysis, progVars, traceVars, rateVars, tickerVars,
                   extractVars, contextVars, timingVars, isolationVars,
                   schemaVars, pagingVars>>

NextSentiment == AnalyzeText

SpecSentiment == InitAnalyze /\ [][NextSentiment]_vars

Returned == analyzed /\ result.exc = "none"

\* C15: for every text and every registered model, whatever the library's
\* output, the result has positive_score + negative_score + neutral_score
\* within [0.95, 1.05], each of the three in [0, 1] and compound_score in
\* [-1, 1].
C15_ScoresNormalized ==
    Returned =>
        /\ result.positive_score + result.negative_score
               + result.neutral_score \in (Scale - 5)..(Scale + 5)
        /\ result.positive_score \in 0..Scale
        /\ result.negative_score \in 0..Scale
        /\ result.neutral_score \in 0..Scale
        /\ result.compound_score \in (-Scale)..Scale

Registered == {"vader", "textblob"}

\* C16: analyze_text with a model name outside {"vader", "textblob"} raises
\* ValueError for every text and returns no result, scored by no model; with
\* a registered name it returns a result whose model_name is the name asked
\* for.
C16_UnknownModelRejected ==
    analyzed =>
        /\ analysis.model \notin Registered =>
               /\ result.exc = "ValueError"
               /\ DOMAIN result = {"exc"}
        /\ analysis.model \in Registered =>
               /\ result.exc = "none"
               /\ result.model_name = analysis.model

\* "bert" asked for on the text "a a"
C16_Witness ==
    /\ analyzed
    /\ analysis.model = "bert"
    /\ analysis.text = <<"a", " ", "a">>
    /\ result.exc = "ValueError"

\* C17: for the polarity model and every polarity p in [-1, 1] the result has
\* positive_score p and negative_score 0 when p > 0, positive_score 0 and
\* negative_score |p| otherwise, neutral_score 1 - |p|, the three summing to
\* exactly 1, and compound_score p; p = 0 gives (0, 0, 1) whatever the
\* subjectivity, and p = 0.6 gives (0.6, 0, 0.4) with the label "positive".
C17_PolarityConversion ==
    (Returned /\ analysis.model = "textblob") =>
        LET p == analysis.native.polarity
        IN  /\ p > 0 => /\ result.positive_score = p
                        /\ result.negative_score = 0
            /\ p <= 0 => /\ result.positive_score = 0
                         /\ result.negative_score = Abs(p)
            /\ result.neutral_score = Scale - Abs(p)
            /\ result.positive_score + result.negative_score
                   + result.neutral_score = Scale
            /\ result.compound_score = p
            /\ p = 0 => /\ result.positive_score = 0
                        /\ result.negative_score = 0
                        /\ result.neutral_score = Scale
            /\ p = 60 => /\ result.positive_score = 60
                         /\ result.negative_score = 0
                         /\ result.neutral_score = 40
                         /\ result.sentiment_label = "positive"

\* polarity 0.6 on the text "a"
C17_Witness ==
    /\ Returned
    /\ analysis.model = "textblob"
    /\ analysis.text = <<"a">>
    /\ analysis.native.polarity = 60
    /\ result.positive_score = 60
    /\ result.neutral_score = 40

\* C18: the label is one of positive, negative, neutral; for the lexicon
\* model it is positive iff compound >= 0.05 and negative iff compound <=
\* -0.05, for the polarity model positive iff polarity >= 0.1 and negative
\* iff polarity <= -0.1, neutral otherwise: 0.07 is positive under the
\* lexicon model and neutral under the polarity model.
C18_LabelThresholds ==
    Returned =>
        /\ result.sentiment_label \in {"positive", "negative", "neutral"}
        /\ analysis.model = "vader" =>
               LET c == analysis.native.compound
               IN  /\ result.sentiment_label = "positive" <=> c >= 5
                   /\ result.sentiment_label = "negative" <=> c <= -5
                   /\ c = 7 => result.sentiment_label = "positive"
        /\ analysis.model = "textblob" =>
               LET p == analysis.native.polarity
               IN  /\ result.sentiment_label = "positive" <=> p >= 10
                   /\ result.sentiment_label = "negative" <=> p <= -10
                   /\ p = 7 => result.sentiment_label = "neutral"

\* the lexicon model with a compound score of exactly 0.05
C18_Witness ==
    /\ Returned
    /\ analysis.model = "vader"
    /\ analysis.native.compound = 5
    /\ result.sentiment_label = "positive"

\* the text has no character that is not white space
Blank(t) == \A i \in 1..Len(t) : IsSpace(t[i])

\* C19 as stated: for an empty or white-space-only text and every registered
\* model, analyze_text does not raise, reports word_count = 0 and
\* text_length = 0, and the label is neutral.
C19_BlankTextIsZeroLength ==
    (analyzed /\ Blank(analysis.text) /\ analysis.model \in Registered) =>
        /\ result.exc = "none"
        /\ result.word_count = 0
        /\ result.text_length = 0
        /\ result.sentiment_label = "neutral"

\* C19: for an empty or white-space-only text and every registered model,
\* analyze_text does not raise, reports word_count = 0 and text_length = the
\* number of characters of the text (0 for the empty text only), and the
\* label is neutral.
C19_BlankTextTolerated ==
    (analyzed /\ Blank(analysis.text) /\ analysis.model \in Registered) =>
        /\ result.exc = "none"
        /\ result.word_count = 0
        /\ result.text_length = Len(analysis.text)
        /\ result.text_length = 0 <=> analysis.text = <<>>
        /\ result.sentiment_label = "neutral"

\* the text of two spaces under the lexicon model
C19_Witness ==
    /\ analyzed
    /\ analysis.text = <<" ", " ">>
    /\ analysis.model = "vader"
    /\ result.exc = "none"
    /\ result.word_count = 0
    /\ result.text_length = 2
    /\ result.sentiment_label = "neutral"

----------------------------------------------------------------------------
(* BaseScraper._extract_text_content: the clean-up of the text that *)
(* soup.get_text() gives                                            *)

LineBreak == "\n"
IsWhite(c) == c \in {" ", "\t", LineBreak}

\* text.splitlines(), with cur the line read so far
RECURSIVE SplitLines(_, _)
SplitLines(t, cur) ==
    IF t = <<>> THEN IF cur = <<>> THEN <<>> ELSE <<cur>>
    ELSE IF Head(t) = LineBreak
         THEN <<cur>> \o SplitLines(Tail(t), <<>>)
         ELSE SplitLines(Tail(t), Append(cur, Head(t)))

\* a variant that leaves the white space at the ends
KeepEnds(s) == s

\* str.strip()
RECURSIVE LStrip(_)
LStrip(s) == IF s # <<>> /\ IsWhite(Head(s)) THEN LStrip(Tail(s)) ELSE s

RECURSIVE RStrip(_)
RStrip(s) ==
    IF s # <<>> /\ IsWhite(s[Len(s)]) THEN RStrip(SubSeq(s, 1, Len(s) - 1))
    ELSE s

Strip(s) == RStrip(LStrip(s))

\* line.split("  "), with cur the phrase read so far
RECURSIVE SplitDouble(_, _)
SplitDouble(s, cur) ==
    IF s = <<>> THEN <<cur>>
    ELSE IF Len(s) >= 2 /\ s[1] = " " /\ s[2] = " "
         THEN <<cur>> \o SplitDouble(SubSeq(s, 3, Len(s)), <<>>)
         ELSE SplitDouble(Tail(s), Append(cur, Head(s)))

\* the stripped phrases of the stripped lines, in order
RECURSIVE StripAll(_)
StripAll(q) == IF q = <<>> THEN <<>> ELSE <<Strip(Head(q))>> \o StripAll(Tail(q))

RECURSIVE Chunks(_)
Chunks(lines) ==
    IF lines = <<>> THEN <<>>
    ELSE StripAll(SplitDouble(Head(lines), <<>>)) \o Chunks(Tail(lines))

\* ' '.join(chunk for chunk in chunks if chunk)
RECURSIVE Join(_)
Join(chunks) ==
    IF chunks = <<>> THEN <<>>
    ELSE LET rest == Join(Tail(chunks))
         IN  IF Head(chunks) = <<>> THEN rest
             ELSE IF rest = <<>> THEN Head(chunks)
             ELSE Head(chunks) \o <<" ">> \o rest

\* lines 158 to 162, on the text of the document
ExtractTextContent(t) == Join(Chunks(StripAll(SplitLines(t, <<>>))))

----------------------------------------------------------------------------
(* BaseScraper._extract_text_content: the parse of the html, the removal of *)
(* elements and soup.get_text().  The html is a sequence of tokens, each a   *)
(* character of text, a start tag or an end tag; a node of the parse tree is *)
(* a record of a tag and a body, a character of text being a node with the  *)
(* character as its tag and an empty body.                                  *)

TagNames == {"nav", "script", "p"}
StartTag == [nav |-> "<nav>", script |-> "<script>", p |-> "<p>"]
EndTag == [nav |-> "</nav>", script |-> "</script>", p |-> "</p>"]
StartTags == {StartTag[n] : n \in TagNames}
EndTags == {EndTag[n] : n \in TagNames}
NameOf(token) ==
    CHOOSE n \in TagNames : token \in {StartTag[n], EndTag[n]}

\* html.parser reads the content of these elements as text up to their end tag
CDataElements == {"script", "style"}

Node(tag, body) == [tag |-> tag, body |-> body]
IsElement(n) == n.tag \in TagNames

\* the end of the innermost open element: it becomes a child of its parent
PopOne(stack) ==
    SubSeq(stack, 1, Len(stack) - 2)
        \o <<Node(stack[Len(stack) - 1].tag,
                  Append(stack[Len(stack) - 1].body, stack[Len(stack)]))>>

\* BeautifulSoup._popToTag: end the open elements down to the innermost one
\* of the name
RECURSIVE PopToTag(_, _)
PopToTag(stack, name) ==
    IF stack[Len(stack)].tag = name THEN PopOne(stack)
    ELSE PopToTag(PopOne(stack), name)

\* a character of text, or a token inside a CDATA element: a string of the
\* innermost open element
AddText(stack, token) ==
    SubSeq(stack, 1, Len(stack) - 1)
        \o <<Node(stack[Len(stack)].tag,
                  Append(stack[Len(stack)].body, Node(token, <<>>)))>>

\* BeautifulSoup(html, 'html.parser'): the children of the root, with stack
\* the open elements, the root first
RECURSIVE Soup(_, _)
Soup(html, stack) ==
    IF html = <<>>
    THEN IF Len(stack) = 1 THEN stack[1].body ELSE Soup(html, PopOne(stack))
    ELSE IF stack[Len(stack)].tag \in CDataElements
    THEN IF Head(html) = EndTag[stack[Len(stack)].tag]
         THEN Soup(Tail(html), PopOne(stack))
         ELSE Soup(Tail(html), AddText(stack, Head(html)))
    ELSE IF Head(html) \in StartTags
    THEN Soup(Tail(html), Append(stack, Node(NameOf(Head(html)), <<>>)))
    ELSE IF Head(html) \in EndTags
    THEN IF \E i \in 2..Len(stack) : stack[i].tag = NameOf(Head(html))
         THEN Soup(Tail(html), PopToTag(stack, NameOf(Head(html))))
         ELSE Soup(Tail(html), stack)
    ELSE Soup(Tail(html), AddText(stack, Head(html)))

Root == Node("[document]", <<>>)

\* a variant of the list of tags that leaves nav in
RemovedButNav == {"script", "style", "footer", "aside"}

\* the tags of soup(["script", "style", "nav", "footer", "aside"])
Removed == {"script", "style", "nav", "footer", "aside"}

\* the tree after decompose() on every element with one of the tags
RECURSIVE Decomposed(_)
Decomposed(nodes) ==
    IF nodes = <<>> THEN <<>>
    ELSE IF Head(nodes).tag \in Removed THEN Decomposed(Tail(nodes))
    ELSE <<Node(Head(nodes).tag, Decomposed(Head(nodes).body))>>
             \o Decomposed(Tail(nodes))

\* soup.get_text(): the strings of the tree, in document order
RECURSIVE GetText(_)
GetText(nodes) ==
    IF nodes = <<>> THEN <<>>
    ELSE IF IsElement(Head(nodes))
    THEN GetText(Head(nodes).body) \o GetText(Tail(nodes))
    ELSE <<Head(nodes).tag>> \o GetText(Tail(nodes))

\* _extract_text_content(html)
ExtractFromHtml(html) ==
    ExtractTextContent(GetText(Decomposed(Soup(html, <<Root>>))))

----------------------------------------------------------------------------
(* SpecExtract: _extract_text_content applied to a document *)

\* documents of text have at most MaxMarkupLen characters
MaxMarkupLen == 5

MarkupChars == {"a", "b", " ", "\t", LineBreak}
Markups == UNION {[1..n -> MarkupChars] : n \in 0..MaxMarkupLen}

\* documents with elements have at most MaxNodes nodes at the top; an element
\* holds at most one character of text or, in nav and p, one such element
MaxNodes == 2

Letters == {Node("a", <<>>), Node("b", <<>>)}
TextBodies == {<<>>} \cup {<<c>> : c \in Letters}
InnerElements == {Node(n, body) : n \in TagNames, body \in TextBodies}
OuterElements ==
    {Node(n, <<e>>) : n \in TagNames \ CDataElements, e \in InnerElements}
Nodes == Letters \cup InnerElements \cup OuterElements
Documents ==
    UNION {[1..n -> Nodes] : n \in 0..MaxNodes}
        \cup {[i \in 1..Len(t) |-> Node(t[i], <<>>)] : t \in Markups}

\* the html of a sequence of nodes
RECURSIVE Html(_)
Html(nodes) ==
    IF nodes = <<>> THEN <<>>
    ELSE LET n == Head(nodes)
         IN  (IF IsElement(n)
              THEN <<StartTag[n.tag]>> \o Html(n.body) \o <<EndTag[n.tag]>>
              ELSE <<n.tag>>) \o Html(Tail(nodes))

InitMarkup ==
    /\ InitScraper
    /\ delay_seconds = 0
    /\ max_retries = 0
    /\ InitTickers
    /\ InitSentiment
    /\ InitContext
    /\ InitTiming
    /\ InitIsolation
    /\ InitSchema
    /\ InitPaging
    /\ document \in Documents
    /\ markup = Html(document)
    /\ plain = <<>>
    /\ extracted = FALSE

\* one call on the document, the first or a repeated one
ExtractText ==
    /\ plain' = ExtractFromHtml(markup)
    /\ extracted' = TRUE
    /\ UNCHANGED <<document, markup, progVars, traceVars, rateVars, tickerVars,
                   sentimentVars, contextVars, timingVars, isolationVars,
                   schemaVars, pagingVars>>

NextExtract == ExtractText

SpecExtract == InitMarkup /\ [][NextExtract]_vars

\* the characters of t that are not white space, in order
RECURSIVE Ink(_)
Ink(t) ==
    IF t = <<>> THEN <<>>
    ELSE IF IsWhite(Head(t)) THEN Ink(Tail(t))
    ELSE <<Head(t)>> \o Ink(Tail(t))

\* the maximal runs of t without a space or a line break, in order, with cur
\* the run read so far
RECURSIVE Pieces(_, _)
Pieces(t, cur) ==
    IF t = <<>> THEN IF cur = <<>> THEN <<>> ELSE <<cur>>
    ELSE IF Head(t) \in {" ", LineBreak}
         THEN (IF cur = <<>> THEN <<>> ELSE <<cur>>) \o Pieces(Tail(t), <<>>)
         ELSE Pieces(Tail(t), Append(cur, Head(t)))

\* C20: the text _extract_text_content returns has no white space at either
\* end, no line break and no two consecutive spaces; it holds the non-empty
\* fragments of the input in their order, joined by one space each; an input
\* without text yields the empty string; a repeated call on the same markup
\* returns the identical text.
C20_WhitespaceCollapsed ==
    /\ [](extracted =>
            /\ plain # <<>> => ~IsWhite(plain[1]) /\ ~IsWhite(plain[Len(plain)])
            /\ \A i \in 1..Len(plain) : plain[i] # LineBreak
            /\ \A i \in 1..(Len(plain) - 1) :
                   ~(plain[i] = " " /\ plain[i + 1] = " ")
            /\ Range(markup) \subseteq MarkupChars =>
                   /\ Ink(plain) = Ink(markup)
                   /\ "\t" \notin Range(markup) =>
                          plain = Join(Pieces(markup, <<>>))
                   /\ Ink(markup) = <<>> => plain = <<>>)
    /\ [][extracted /\ markup' = markup => plain' = plain]_vars

\* "a", three spaces, "b": split at the first two spaces, the third stripped
C20_Witness ==
    /\ extracted
    /\ markup = <<"a", " ", " ", " ", "b">>
    /\ plain = <<"a", " ", "b">>

\* the text of the nodes that is in no script, style, nav, footer or aside
\* element, in document order
RECURSIVE OutsideText(_)
OutsideText(nodes) ==
    IF nodes = <<>> THEN <<>>
    ELSE LET n == Head(nodes)
         IN  (IF ~IsElement(n) THEN <<n.tag>>
              ELSE IF n.tag \in {"script", "style", "nav", "footer", "aside"}
              THEN <<>>
              ELSE OutsideText(n.body)) \o OutsideText(Tail(nodes))

\* C21: for every document, no text inside a script, style, nav, footer or
\* aside element, at any depth, is in the text _extract_text_content
\* returns, and all the text outside such elements is: the characters
\* returned are those outside these elements, in order.
C21_RemovedElementsDropped ==
    extracted => Ink(plain) = Ink(OutsideText(document))

\* "<p><nav>b</nav></p>a": text in a nav inside a p, and text after the p
C21_Witness ==
    /\ extracted
    /\ document = <<Node("p", <<Node("nav", <<Node("b", <<>>)>>)>>),
                    Node("a", <<>>)>>
    /\ markup = <<"<p>", "<nav>", "b", "</nav>", "</p>", "a">>
    /\ plain = <<"a">>

----------------------------------------------------------------------------
(* SpecContext: one with statement on a scraper, its body making requests *)

Enter ==
    /\ EnterScope
    /\ UNCHANGED <<traceVars, rateVars>>

BodyFetch ==
    /\ scope = "body"
    /\ Fetch

BodyAnswer ==
    /\ scope = "body"
    /\ Answer

Exit ==
    /\ \E exc \in BodyEnds : ExitScope(exc)
    /\ UNCHANGED <<traceVars, rateVars>>

NextContext == Enter \/ BodyFetch \/ BodyAnswer \/ Exit

SpecContext == Init /\ [][NextContext]_vars

\* C22: when the with statement on a scraper is left, by a body that
\* completed or by one that raised, the run is finalized (end_time set) and
\* the session is closed; an exception of the body is passed on to the
\* caller, and a body that completed passes none.
C22_SessionReleased ==
    scope \in {"completed", "raised"} =>
        /\ stats.end_time # NoTime
        /\ stats.end_time >= stats.start_time
        /\ session = "closed"
        /\ scope = "raised" => escaped = "Exception"
        /\ scope = "completed" => escaped = "none"

\* the body made a request and then raised
C22_Witness ==
    /\ scope = "raised"
    /\ stats.requests_made >= 1
    /\ stats.end_time # NoTime
    /\ session = "closed"
    /\ escaped = "Exception"

----------------------------------------------------------------------------
(* SpecTiming: analyze_text statement by statement, against the clock *)

\* (time.time() - start_time) * 1000
MillisPerSecond == 1000

\* the calls timed: texts of at most one character, every model name and
\* every output of the library for them
TimedAnalyses == {a \in Analyses : Len(a.text) <= 1}

InitTimed ==
    /\ InitScraper
    /\ delay_seconds = 0
    /\ max_retries = 0
    /\ InitTickers
    /\ InitExtract
    /\ InitContext
    /\ InitTiming
    /\ InitIsolation
    /\ InitSchema
    /\ InitPaging
    /\ analysis \in TimedAnalyses
    /\ result = NoResult
    /\ analyzed = FALSE

\* the wall clock advances while a statement of analyze_text runs
Elapse ==
    /\ step \notin {"idle", "done"}
    /\ now < MaxTime
    /\ now' = now + 1
    /\ UNCHANGED <<delay_seconds, max_retries, stats, pc, call, last,
                   runCalls, runs, traceVars, rateVars, tickerVars,
                   sentimentVars, extractVars, contextVars, timingVars,
                   isolationVars, schemaVars, pagingVars>>

\* start_time = time.time()
ReadStartTime ==
    /\ step = "idle"
    /\ startedAt' = now
    /\ step' = "score"
    /\ UNCHANGED <<scoredAt, progVars, traceVars, rateVars, tickerVars,
                   sentimentVars, extractVars, contextVars, isolationVars,
                   schemaVars, pagingVars>>

\* result = self._analyze_vader(text) / self._analyze_textblob(text), or
\* raise ValueError
Score ==
    /\ step = "score"
    /\ scoredAt' = now
    /\ IF Strategy(analysis.model) = "ValueError"
       THEN /\ result' = AnalyzeTextResult(analysis)
            /\ analyzed' = TRUE
            /\ step' = "done"
       ELSE /\ step' = "text_length"
            /\ UNCHANGED <<result, analyzed>>
    /\ UNCHANGED <<analysis, startedAt, progVars, traceVars, rateVars,
                   tickerVars, extractVars, contextVars, isolationVars,
                   schemaVars, pagingVars>>

\* "text_length": len(text), the second value of the dict display
TextLength ==
    /\ step = "text_length"
    /\ step' = "word_count"
    /\ UNCHANGED <<startedAt, scoredAt, progVars, traceVars, rateVars,
                   tickerVars, sentimentVars, extractVars, contextVars,
                   isolationVars, schemaVars, pagingVars>>

\* "word_count": len(text.split()), the third value of the dict display
CountWords ==
    /\ step = "word_count"
    /\ step' = "processing_time_ms"
    /\ UNCHANGED <<startedAt, scoredAt, progVars, traceVars, rateVars,
                   tickerVars, sentimentVars, extractVars, contextVars,
                   isolationVars, schemaVars, pagingVars>>

\* "processing_time_ms": round((time.time() - start_time) * 1000, 2), the
\* last value of the dict display, then result.update(...) and return
ReadEndTime ==
    /\ step = "processing_time_ms"
    /\ result' = [processing_time_ms |->
                      (now - startedAt) * MillisPerSecond]
                 @@ AnalyzeTextResult(analysis)
    /\ analyzed' = TRUE
    /\ step' = "done"
    /\ UNCHANGED <<analysis, startedAt, scoredAt, progVars, traceVars,
                   rateVars, tickerVars, extractVars, contextVars,
                   isolationVars, schemaVars, pagingVars>>

NextTiming ==
    \/ Elapse
    \/ ReadStartTime
    \/ Score
    \/ TextLength
    \/ CountWords
    \/ ReadEndTime

SpecTiming == InitTimed /\ [][NextTiming]_vars

\* C23: the duration analyze_text reports covers the model invocation only:
\* the end timestamp is the clock when the scoring of the model returned,
\* read before text_length and word_count are computed.
C23_DurationCoversScoringOnly ==
    Returned =>
        result.processing_time_ms
            = (scoredAt - startedAt) * MillisPerSecond

----------------------------------------------------------------------------
(* SpecIsolation: two instances, A and B, one thread each.  The variables  *)
(* of the scraper hold the attributes of the instance whose thread runs;   *)
(* the attributes of the other instance are parked.                        *)

Instances == {"A", "B"}

\* _make_request calls per instance, and start_scraping calls per instance,
\* where two instances run side by side
MaxSharedCalls == 2
MaxSharedRuns == 1

\* a request that succeeds and one that fails
TwoOutcomes == {Response(200, FALSE), ReadTimeout}

Other(i) == IF i = "A" THEN "B" ELSE "A"

\* a variant with stats = {...} in the class body, one dict for all instances
StatsOnClass == FALSE

\* self.stats = {...} in __init__: a dict of the instance
StatsPerInstance == TRUE

\* the attributes __init__ binds to self, with the position of the
\* instance's thread
Own ==
    [delay_seconds |-> delay_seconds, max_retries |-> max_retries,
     stats |-> stats, pc |-> pc, call |-> call, last |-> last,
     runCalls |-> runCalls, runs |-> runs]

\* B after __init__
Constructed ==
    {[delay_seconds |-> d, max_retries |-> 0, stats |-> InitStats,
      pc |-> "idle", call |-> NoCall,
      last |-> Done("init", "None", "none", NoOutcome, NoCall),
      runCalls |-> 0, runs |-> 0] : d \in DelayValues}

\* the attributes of instance i
Attributes(i) ==
    IF active = i
    THEN Own
    ELSE [parked EXCEPT !.stats = IF StatsPerInstance THEN @ ELSE stats]

\* A is built without a delay and B with either delay, both without retries
InitTwo ==
    /\ InitScraper
    /\ delay_seconds = 0
    /\ max_retries = 0
    /\ InitTickers
    /\ InitSentiment
    /\ InitExtract
    /\ InitContext
    /\ InitTiming
    /\ InitSchema
    /\ InitPaging
    /\ active = "A"
    /\ parked \in Constructed
    /\ issued = [i \in Instances |-> 0]

\* the thread of the other instance runs next
Switch ==
    /\ active' = Other(active)
    /\ parked' = Own
    /\ delay_seconds' = parked.delay_seconds
    /\ max_retries' = parked.max_retries
    /\ stats' = IF StatsPerInstance THEN parked.stats ELSE stats
    /\ pc' = parked.pc
    /\ call' = parked.call
    /\ last' = parked.last
    /\ runCalls' = parked.runCalls
    /\ runs' = parked.runs
    /\ UNCHANGED <<now, issued, traceVars, rateVars, tickerVars,
                   sentimentVars, extractVars, contextVars, timingVars,
                   schemaVars, pagingVars>>

OwnFetch ==
    /\ issued[active] < MaxSharedCalls
    /\ FetchCall("GET", "none", 0)
    /\ UNCHANGED <<traceVars, rateVars>>

OwnAnswer ==
    /\ \E o \in TwoOutcomes : Attempt(o, 0)
    /\ UNCHANGED <<traceVars, rateVars>>

OwnStart ==
    /\ runs < MaxSharedRuns
    /\ StartScraping
    /\ UNCHANGED <<traceVars, rateVars, contextVars>>

OwnEnd ==
    /\ EndScraping
    /\ UNCHANGED <<traceVars, rateVars, contextVars>>

NextIsolation == Switch \/ OwnFetch \/ OwnAnswer \/ OwnStart \/ OwnEnd

SpecIsolation == InitTwo /\ [][NextIsolation]_vars

\* the counter of an instance and its decision to sleep follow from the
\* calls made on that instance
OwnCallsDecide(i) ==
    /\ Attributes(i).stats.requests_made = issued[i]
    /\ Attributes(i).last.op \in {"fetch", "calling"}
           => (Attributes(i).last.slept <=> issued[i] > 1)

\* C24: with two instances and every interleaving of their fetch,
\* start_scraping and end_scraping calls, the statistics of an instance and
\* its decision to sleep before a request depend only on the calls made on
\* it, and no call on the other instance changes any of its attributes.
C24_InstanceIsolation ==
    /\ [](\A i \in Instances : OwnCallsDecide(i))
    /\ [][\A i \in Instances :
              i # active => Attributes(i)' = Attributes(i)]_vars

\* A is in the middle of its first request, which went out without a sleep,
\* while B has finished its second, which slept, within a run of its own
C24_Witness ==
    /\ Attributes("A").pc = "request"
    /\ issued["A"] = 1
    /\ ~Attributes("A").call.slept
    /\ Attributes("A").stats.start_time = NoTime
    /\ issued["B"] = 2
    /\ Attributes("B").pc = "idle"
    /\ Attributes("B").last.op = "fetch"
    /\ Attributes("B").last.slept
    /\ Attributes("B").stats.start_time # NoTime
    /\ Attributes("B").stats.requests_made = 2

----------------------------------------------------------------------------
(* SpecSchema: SentimentScoreCreate validates an input whose fields of     *)
(* SentimentScoreBase are valid.  Fields are validated in the order of     *)
(* their definition; the validator of a field runs on a value the input    *)
(* provides, None included, and not on the default of a missing key.       *)

\* identifiers are 0..MaxId
MaxId == 3

\* a key the input does not have, None, and an int
MissingKey == [type |-> "missing", n |-> 0]
NoneValue == [type |-> "NoneType", n |-> 0]
IntValue(n) == [type |-> "int", n |-> n]

\* the default of article_id and of reddit_post_id
DefaultId == NoneValue

\* what the input holds under a key: nothing, None, or an integer
Provided == {MissingKey, NoneValue} \cup {IntValue(n) : n \in 0..MaxId}

Payloads == [article_id : Provided, reddit_post_id : Provided]

\* bool(x) of None and of an int
Bool(x) == x.type = "int" /\ x.n # 0

\* the ^ of two bools
Xor(a, b) == a # b

\* validate_source_reference(cls, v, values) raises ValueError; it returns
\* v otherwise
ValidateSourceReference(v, seen) ==
    LET article_id == IF "article_id" \in DOMAIN seen
                      THEN seen["article_id"] ELSE v
        reddit_post_id == IF "reddit_post_id" \in DOMAIN seen
                          THEN seen["reddit_post_id"] ELSE v
    IN  ~Xor(Bool(article_id), Bool(reddit_post_id))

InitValidate ==
    /\ InitScraper
    /\ delay_seconds = 0
    /\ max_retries = 0
    /\ InitTickers
    /\ InitSentiment
    /\ InitExtract
    /\ InitContext
    /\ InitTiming
    /\ InitIsolation
    /\ InitPaging
    /\ payload \in Payloads
    /\ values = <<>>
    /\ errors = {}
    /\ cursor = "article_id"

\* the validation of one field: a missing key takes the default without
\* validation; a value that the validator rejects is an error of the field
\* and stays out of values
ValidateField(field, next) ==
    /\ cursor' = next
    /\ IF payload[field] = MissingKey
       THEN /\ values' = (field :> DefaultId) @@ values
            /\ UNCHANGED errors
       ELSE IF ValidateSourceReference(payload[field], values)
       THEN /\ errors' = errors \cup {field}
            /\ UNCHANGED values
       ELSE /\ values' = (field :> payload[field]) @@ values
            /\ UNCHANGED errors
    /\ UNCHANGED <<payload, progVars, traceVars, rateVars, tickerVars,
                   sentimentVars, extractVars, contextVars, timingVars,
                   isolationVars, pagingVars>>

ValidateArticleId ==
    /\ cursor = "article_id"
    /\ ValidateField("article_id", "reddit_post_id")

ValidateRedditPostId ==
    /\ cursor = "reddit_post_id"
    /\ ValidateField("reddit_post_id", "done")

NextSchema == ValidateArticleId \/ ValidateRedditPostId

SpecSchema == InitValidate /\ [][NextSchema]_vars

\* the model is built: no field raised
Accepted == cursor = "done" /\ errors = {}

\* a key given a value other than None
NonNull(field) == payload[field].type = "int"

\* C25: an input is accepted if and only if exactly one of article_id and
\* reddit_post_id is provided with a non-null value; article_id alone is
\* accepted, reddit_post_id alone is accepted, both or neither are rejected.
C25_ExactlyOneSourceAccepted ==
    cursor = "done" =>
        (Accepted <=> Xor(NonNull("article_id"), NonNull("reddit_post_id")))

----------------------------------------------------------------------------
(* Counter consistency of one instance, over Spec *)

\* C26: whenever no fetch call is in progress, requests_made equals
\* successful_requests + failed_requests; the three counters are never
\* negative and no step decreases any of them.
C26_CounterConsistency ==
    /\ [](pc = "idle" =>
            stats.requests_made
                = stats.successful_requests + stats.failed_requests)
    /\ [](/\ stats.requests_made >= 0
          /\ stats.successful_requests >= 0
          /\ stats.failed_requests >= 0)
    /\ [][/\ stats'.requests_made >= stats.requests_made
          /\ stats'.successful_requests >= stats.successful_requests
          /\ stats'.failed_requests >= stats.failed_requests]_vars

----------------------------------------------------------------------------
(* Over-long symbols, over SpecTickers *)

\* the positions of u where an exchange prefix stands
PrefixAt(u, i) == {p \in ExchangePrefixes : LiteralAt(u, i, p)}

\* the positions of u where "$", or an exchange prefix p, is immediately
\* followed by a run of more than 5 letters: <<position of the run>>
OverlongAfterDollar(u) ==
    {i + 1 : i \in {k \in 1..Len(u) :
                       u[k] = "$" /\ TokenRun(u, k + 1) > MaxSymbol}}
OverlongAfterPrefix(u) ==
    UNION {{<<i, i + Len(p)>> : p \in {q \in PrefixAt(u, i) :
                                     TokenRun(u, i + Len(q)) > MaxSymbol}} :
           i \in 1..Len(u)}

\* the first 5 letters of the run at position i
Truncated(u, i) == SubSeq(u, i, i + MaxSymbol - 1)

\* the scan of the third pattern starts a match at position i: a prefix
\* stands there at a word boundary, outside the match of a prefix that ends
\* where this one starts
RECURSIVE MatchStart(_, _)
MatchStart(u, i) ==
    /\ i >= 1
    /\ PrefixAt(u, i) # {}
    /\ WordBoundary(u, i)
    /\ \A p \in ExchangePrefixes :
           ~(i - Len(p) >= 1 /\ LiteralAt(u, i - Len(p), p)
                 /\ MatchStart(u, i - Len(p)))

\* the filter on the length removes nothing
LengthFilterIdle(m) ==
    \A k \in 1..3 : \A c \in Groups(m[k], k = 3) : Len(c) <= MaxSymbol

\* C27 as worded: wherever "$" or an exchange prefix is immediately followed
\* by a run of more than 5 letters, the first 5 letters of the run are
\* returned as a symbol, and the length filter removes no candidate.
C27_OverlongTruncated ==
    detected =>
        \A u \in {Upper(text)} :
            /\ \A i \in OverlongAfterDollar(u) :
                   Truncated(u, i) \in Range(tickers)
            /\ \A at \in OverlongAfterPrefix(u) :
                   Truncated(u, at[2]) \in Range(tickers)
            /\ \A m \in {PatternMatches(text)} : LengthFilterIdle(m)

\* C27, amended: wherever "$", or an exchange prefix at which the pattern
\* matches (at a word boundary and outside an earlier match), is immediately
\* followed by a run of more than 5 letters, the first 5 letters of the run,
\* in upper case, are returned as a symbol, and the length filter removes no
\* candidate.
C27_MatchedOverlongTruncated ==
    detected =>
        \A u \in {Upper(text)} :
            /\ \A i \in OverlongAfterDollar(u) :
                   Truncated(u, i) \in Range(tickers)
            /\ \A at \in OverlongAfterPrefix(u) :
                   MatchStart(u, at[1]) =>
                       Truncated(u, at[2]) \in Range(tickers)
            /\ \A m \in {PatternMatches(text)} : LengthFilterIdle(m)

\* "$GOOGLE"
C27_Witness ==
    /\ detected
    /\ text = <<"$", "G", "O", "O", "G", "L", "E">>
    /\ tickers = <<<<"G", "O", "O", "G", "L">>>>

----------------------------------------------------------------------------
(* SpecPaging: GET /articles for a skip, a limit and a number of articles  *)
(* that the query counts                                                   *)

\* limit: int = Query(10, ge=1, le=100)
MinLimit == 1
LimitCap == 100

\* the requests use a limit of at most MaxPageSize, or one at the cap or past
\* it; a skip of at most MaxSkip; the table holds at most MaxTotal articles
MaxPageSize == 4
MaxSkip == 8
MaxTotal == 8

Limits == (0..MaxPageSize) \cup {LimitCap, LimitCap + 1}
Skips == (-1)..MaxSkip

Min(a, b) == IF a <= b THEN a ELSE b

\* a variant that rounds the number of pages down
PagesFloor(total, limit) == total \div limit

\* pages=(total + limit - 1) // limit
Pages(total, limit) == (total + limit - 1) \div limit

\* the Query(...) constraints of skip and limit
ValidQuery(skip, limit) ==
    /\ skip >= 0
    /\ limit >= MinLimit
    /\ limit <= LimitCap

\* len(query.offset(skip).limit(limit).all())
Window(skip, limit, total) == Min(limit, Max(total - skip, 0))

\* PaginationInfo(...) of get_articles
Pagination(skip, limit, total) ==
    [page |-> (skip \div limit) + 1,
     per_page |-> limit,
     total |-> total,
     pages |-> Pages(total, limit),
     has_prev |-> skip > 0,
     has_next |-> skip + limit < total]

InitRequest ==
    /\ InitScraper
    /\ delay_seconds = 0
    /\ max_retries = 0
    /\ InitTickers
    /\ InitSentiment
    /\ InitExtract
    /\ InitContext
    /\ InitTiming
    /\ InitIsolation
    /\ InitSchema
    /\ request \in [skip : Skips, limit : Limits]
    /\ stored \in 0..MaxTotal
    /\ response = [status |-> "none"]

\* a request whose parameters break a constraint is answered 422 before
\* get_articles runs
RejectQuery ==
    /\ response.status = "none"
    /\ ~ValidQuery(request.skip, request.limit)
    /\ response' = [status |-> "422"]
    /\ UNCHANGED <<request, stored, progVars, traceVars, rateVars,
                   tickerVars, sentimentVars, extractVars, contextVars,
                   timingVars, isolationVars, schemaVars>>

GetArticles ==
    /\ response.status = "none"
    /\ ValidQuery(request.skip, request.limit)
    /\ response' =
           [status |-> "200",
            articles |-> Window(request.skip, request.limit, stored),
            pagination |-> Pagination(request.skip, request.limit, stored)]
    /\ UNCHANGED <<request, stored, progVars, traceVars, rateVars,
                   tickerVars, sentimentVars, extractVars, contextVars,
                   timingVars, isolationVars, schemaVars>>

NextPaging == RejectQuery \/ GetArticles

SpecPaging == InitRequest /\ [][NextPaging]_vars

\* the least p with p * limit >= total
Ceil(total, limit) ==
    CHOOSE p \in 0..total :
        p * limit >= total /\ \A q \in 0..(p - 1) : q * limit < total

\* C28: for every skip >= 0, 1 <= limit <= 100 and total >= 0 the answer
\* has pages = ceil(total / limit), has_prev iff skip > 0, has_next iff
\* skip + limit < total (items remain after the returned window), and
\* 1 <= page <= pages whenever the returned window is not empty.
C28_PaginationConsistent ==
    (/\ request.skip >= 0
     /\ request.limit \in 1..100
     /\ response.status # "none") =>
        /\ response.status = "200"
        /\ response.pagination.pages = Ceil(stored, request.limit)
        /\ response.pagination.has_prev <=> request.skip > 0
        /\ response.pagination.has_next
               <=> request.skip + request.limit < stored
        /\ response.pagination.has_next
               <=> request.skip + response.articles < stored
        /\ request.skip < stored <=> response.articles > 0
        /\ response.articles > 0 =>
               /\ response.pagination.page >= 1
               /\ response.pagination.page <= response.pagination.pages

\* the third page of four: 7 articles, 2 a page, 4 skipped
C28_Witness ==
    /\ request = [skip |-> 4, limit |-> 2]
    /\ stored = 7
    /\ response.status = "200"
    /\ response.articles = 2
    /\ response.pagination.page = 3
    /\ response.pagination.pages = 4
    /\ response.pagination.has_prev
    /\ response.pagination.has_next

====
